---- MODULE Spec2Model ----
(***************************************************************************)
(* Model of the liquidity dashboard of src/app.py: the script that the UI  *)
(* framework reruns top to bottom on every interaction, the retrying fetch *)
(* of the average daily volume, and the listener thread that receives      *)
(* order-book updates and writes the shared session state.                 *)
(*                                                                         *)
(* Numbers.  Python floats are modelled as exact rationals <<n, d>> in     *)
(* lowest terms with d > 0; quantities and kline volumes are naturals.     *)
(* The sliders' ranges (1..20 levels, 0.1..10.0 percent) are scaled down   *)
(* to the sets PriceLevels and Thresholds.                                 *)
(***************************************************************************)
EXTENDS Integers, Sequences, FiniteSets, TLC

VARIABLES
    session_state,    \* st.session_state: a function from the keys present to their values
    r_pc,             \* position of the script run (the module's top-level code)
    shown,            \* what the page's render has read from session_state, by field
    f_pc,             \* fetch_avg_daily_volume: position
    f_retries,        \* fetch_avg_daily_volume: parameter retries
    f_attempt,        \* fetch_avg_daily_volume: loop variable attempt
    f_klines,         \* fetch_avg_daily_volume: local klines (the volumes column)
    f_sleeps,         \* number of asyncio.sleep(delay) calls made by the current fetch
    f_unclosed,       \* clients the current fetch created and never called close_connection on
    f_result,         \* value returned by fetch_avg_daily_volume
    l_pc,             \* listener thread: position in run_asyncio / listen_order_book
    l_levels,         \* listen_order_book: parameter levels
    l_threshold,      \* listen_order_book: parameter threshold
    l_client,         \* listen_order_book: local client: "unbound", "open" or "closed"
    l_vals,           \* listen_order_book: locals of one loop iteration, by field
    threads_started,  \* number of Thread.start() calls of the session
    call,             \* arguments of a direct call of a helper function
    ret               \* its return value

vars == <<session_state, r_pc, shown, f_pc, f_retries, f_attempt, f_klines, f_sleeps,
          f_unclosed, f_result, l_pc, l_levels, l_threshold, l_client, l_vals,
          threads_started, call, ret>>

fetch_vars == <<f_pc, f_retries, f_attempt, f_klines, f_sleeps, f_unclosed, f_result>>
listen_vars == <<l_pc, l_levels, l_threshold, l_client, l_vals>>
call_vars == <<call, ret>>

-----------------------------------------------------------------------------
(* Bounds *)

MaxKlines == 2        \* a klines answer holds at most MaxKlines candles
MaxRetries == 3       \* retries values tried when the fetch is called on its own
MaxDepth == 2         \* longest book side passed to calculate_liquidity directly
MaxQty == 2           \* largest quantity of a level passed to calculate_liquidity directly
MaxPctHalves == 4     \* generate_signal is called directly with 0, 1/2, .. MaxPctHalves/2

-----------------------------------------------------------------------------
(* Rationals standing for Python floats *)

RECURSIVE GCD(_, _)
GCD(a, b) == IF b = 0 THEN a ELSE GCD(b, a % b)

Abs(n) == IF n < 0 THEN -n ELSE n

Rat(n, d) ==
    LET s == IF d < 0 THEN -1 ELSE 1
        g == GCD(Abs(n), Abs(d))
    IN  <<(s * n) \div g, (s * d) \div g>>

Zero == <<0, 1>>
FromInt(n) == <<n, 1>>
RatLess(a, b) == a[1] * b[2] < b[1] * a[2]
RatMul(a, b) == Rat(a[1] * b[1], a[2] * b[2])
RatDiv(a, b) == Rat(a[1] * b[2], a[2] * b[1])

RECURSIVE SumSeq(_)
SumSeq(s) == IF s = <<>> THEN 0 ELSE Head(s) + SumSeq(Tail(s))

-----------------------------------------------------------------------------
(* Helper functions of app.py *)

\* a slice that keeps one element too many
PySliceOneMore(s, n) == SubSeq(s, 1, IF n + 1 < Len(s) THEN n + 1 ELSE Len(s))

\* s[:n] of a Python list
PySlice(s, n) ==
    IF n >= 0
    THEN SubSeq(s, 1, IF n < Len(s) THEN n ELSE Len(s))
    ELSE SubSeq(s, 1, IF Len(s) + n > 0 THEN Len(s) + n ELSE 0)

\* "for _, q in side" unpacks every entry into two names
Unpacks(side) == \A i \in 1..Len(side) : Len(side[i]) = 2

Quantities(side) == [i \in 1..Len(side) |-> side[i][2]]

PctOf(liquidity, avg_daily_volume) ==
    IF RatLess(Zero, avg_daily_volume)
    THEN RatMul(RatDiv(FromInt(liquidity), avg_daily_volume), FromInt(100))
    ELSE Zero

calculate_liquidity(bids, asks, levels, avg_daily_volume) ==
    LET selected_bids == PySlice(bids, levels)
        selected_asks == PySlice(asks, levels)
    IN  IF Unpacks(selected_bids) /\ Unpacks(selected_asks)
        THEN LET liquidity_bid == SumSeq(Quantities(selected_bids))
                 liquidity_ask == SumSeq(Quantities(selected_asks))
             IN  [liquidity_bid |-> liquidity_bid,
                  liquidity_ask |-> liquidity_ask,
                  liquidity_bid_pct |-> PctOf(liquidity_bid, avg_daily_volume),
                  liquidity_ask_pct |-> PctOf(liquidity_ask, avg_daily_volume)]
        ELSE \* except Exception: return 0.0, 0.0, 0.0, 0.0
             [liquidity_bid |-> 0, liquidity_ask |-> 0,
              liquidity_bid_pct |-> Zero, liquidity_ask_pct |-> Zero]

\* a comparison that counts equality with the threshold as above
AboveOrEqual(pct, threshold) == ~RatLess(pct, threshold)

\* pct > threshold
Above(pct, threshold) == RatLess(threshold, pct)

generate_signal(liquidity_bid_pct, liquidity_ask_pct, threshold) ==
    IF Above(liquidity_bid_pct, threshold) /\ ~Above(liquidity_ask_pct, threshold)
    THEN "Buy"
    ELSE IF Above(liquidity_ask_pct, threshold) /\ ~Above(liquidity_bid_pct, threshold)
         THEN "Sell"
         ELSE "Neutral"

-----------------------------------------------------------------------------
(* Direct calls of the two pure helpers, over bounded argument sets *)

RECURSIVE SeqsUpTo(_, _)
SeqsUpTo(S, n) ==
    IF n = 0 THEN {<<>>}
    ELSE LET shorter == SeqsUpTo(S, n - 1)
         IN  shorter \cup {Append(s, x) : s \in {t \in shorter : Len(t) = n - 1}, x \in S}

\* a level is [price, quantity]; a one-element entry is one the unpacking rejects
Entries == {<<100, q>> : q \in 1..MaxQty} \cup {<<100>>}
Sides == SeqsUpTo(Entries, MaxDepth)
LevelArgs == -1..(MaxDepth + 1)
VolumeArgs == {Rat(-1, 1), Zero, Rat(1, 2), FromInt(100)}
PctArgs == {Rat(k, 2) : k \in 0..MaxPctHalves}

NoCall == [fn |-> "none"]
NoRet == [returned |-> FALSE]

LiquidityCalls ==
    [fn : {"calculate_liquidity"}, bids : Sides, asks : Sides, levels : LevelArgs,
     avg_daily_volume : VolumeArgs]

SignalCalls ==
    [fn : {"generate_signal"}, liquidity_bid_pct : PctArgs, liquidity_ask_pct : PctArgs,
     threshold : PctArgs]

CallCalculateLiquidity ==
    /\ call.fn = "calculate_liquidity"
    /\ ~ret.returned
    /\ ret' = [returned |-> TRUE,
               value |-> calculate_liquidity(call.bids, call.asks, call.levels,
                                             call.avg_daily_volume)]
    /\ UNCHANGED <<call, session_state, r_pc, shown, fetch_vars, listen_vars,
                   threads_started>>

CallGenerateSignal ==
    /\ call.fn = "generate_signal"
    /\ ~ret.returned
    /\ ret' = [returned |-> TRUE,
               value |-> generate_signal(call.liquidity_bid_pct, call.liquidity_ask_pct,
                                         call.threshold)]
    /\ UNCHANGED <<call, session_state, r_pc, shown, fetch_vars, listen_vars,
                   threads_started>>

-----------------------------------------------------------------------------
(* fetch_avg_daily_volume(symbol, days, retries, delay)                    *)

DefaultRetries == 3

KlineVolumes == {0, 100}
\* what get_historical_klines may answer: the volume column of up to MaxKlines candles
KlineAnswers == SeqsUpTo(KlineVolumes, MaxKlines)

\* sum(volumes) / len(volumes)
Mean(volumes) == Rat(SumSeq(volumes), Len(volumes))

NoKlines == <<>>

\* the state of a call that has just been made
FetchCalled(retries) ==
    /\ f_pc' = "create"
    /\ f_retries' = retries
    /\ f_attempt' = 1
    /\ f_klines' = NoKlines
    /\ f_sleeps' = 0
    /\ f_unclosed' = 0
    /\ f_result' = Zero

\* an except block that retries once more than asked
FetchExceptOneMore ==
    IF f_attempt <= f_retries
    THEN /\ f_sleeps' = f_sleeps + 1
         /\ f_pc' = "sleep"
         /\ f_result' = f_result
    ELSE /\ f_sleeps' = f_sleeps
         /\ f_pc' = "returned"
         /\ f_result' = Zero

\* the except block: warn and sleep when attempts are left, else give up with 0.0
FetchExcept ==
    IF f_attempt < f_retries
    THEN /\ f_sleeps' = f_sleeps + 1
         /\ f_pc' = "sleep"
         /\ f_result' = f_result
    ELSE /\ f_sleeps' = f_sleeps
         /\ f_pc' = "returned"
         /\ f_result' = Zero

\* client = await AsyncClient.create()
FetchCreate ==
    /\ f_pc = "create"
    /\ \/ /\ f_unclosed' = f_unclosed + 1
          /\ f_pc' = "klines"
          /\ UNCHANGED <<f_sleeps, f_result>>
       \/ /\ FetchExcept
          /\ UNCHANGED f_unclosed
    /\ UNCHANGED <<f_retries, f_attempt, f_klines>>
    /\ UNCHANGED <<session_state, r_pc, shown, listen_vars, threads_started, call_vars>>

\* klines = await client.get_historical_klines(...)
FetchKlines ==
    /\ f_pc = "klines"
    /\ \/ \E k \in KlineAnswers :
            /\ f_klines' = k
            /\ f_pc' = "close"
            /\ UNCHANGED <<f_sleeps, f_result>>
       \/ /\ FetchExcept
          /\ UNCHANGED f_klines
    /\ UNCHANGED <<f_retries, f_attempt, f_unclosed>>
    /\ UNCHANGED <<session_state, r_pc, shown, listen_vars, threads_started, call_vars>>

\* lines 79-84 once close_connection has returned
FetchEvaluate ==
    IF f_klines = <<>>
    THEN FetchExcept                     \* raise ValueError("No kline data received.")
    ELSE /\ f_result' = Mean(f_klines)   \* return avg_volume
         /\ f_pc' = "returned"
         /\ f_sleeps' = f_sleeps

\* await client.close_connection(), and the rest of the try block
FetchClose ==
    /\ f_pc = "close"
    /\ f_unclosed' = f_unclosed - 1
    /\ \/ FetchEvaluate
       \/ FetchExcept                    \* close_connection raised
    /\ UNCHANGED <<f_retries, f_attempt, f_klines>>
    /\ UNCHANGED <<session_state, r_pc, shown, listen_vars, threads_started, call_vars>>

\* asyncio.sleep(delay) is over: the next iteration of the for loop
FetchRetry ==
    /\ f_pc = "sleep"
    /\ f_attempt' = f_attempt + 1
    /\ f_klines' = NoKlines
    /\ f_pc' = "create"
    /\ UNCHANGED <<f_retries, f_sleeps, f_unclosed, f_result>>
    /\ UNCHANGED <<session_state, r_pc, shown, listen_vars, threads_started, call_vars>>

fetch_avg_daily_volume == FetchCreate \/ FetchKlines \/ FetchClose \/ FetchRetry

-----------------------------------------------------------------------------
(* st.session_state                                                        *)

\* lines 34-56: the value each key gets when it is not in the session state yet
SessionDefaults ==
    [avg_daily_volume |-> Zero, bids |-> <<>>, asks |-> <<>>, signal |-> "Neutral",
     liquidity_bid |-> 0, liquidity_ask |-> 0,
     liquidity_bid_pct |-> Zero, liquidity_ask_pct |-> Zero]

\* "if key not in st.session_state: st.session_state.key = default", for every key
WithDefaults(ss) ==
    [k \in DOMAIN ss \cup DOMAIN SessionDefaults |->
        IF k \in DOMAIN ss THEN ss[k] ELSE SessionDefaults[k]]

\* st.session_state.k = v
Put(ss, k, v) == [x \in DOMAIN ss \cup {k} |-> IF x = k THEN v ELSE ss[x]]

\* the fields the listener stores, in the order of lines 144-150
StoreField == <<"bids", "asks", "signal", "liquidity_bid", "liquidity_ask",
                "liquidity_bid_pct", "liquidity_ask_pct">>
StoreAt == <<"store_bids", "store_asks", "store_signal", "store_liquidity_bid",
             "store_liquidity_ask", "store_liquidity_bid_pct", "store_liquidity_ask_pct">>

\* the fields the page reads, in the order of lines 202-225
ReadField == <<"liquidity_bid", "liquidity_bid_pct", "liquidity_ask",
               "liquidity_ask_pct", "signal", "bids", "asks">>
ReadAt == <<"read_liquidity_bid", "read_liquidity_bid_pct", "read_liquidity_ask",
            "read_liquidity_ask_pct", "read_signal", "read_bids", "read_asks">>

Range(s) == {s[i] : i \in 1..Len(s)}
IndexOf(s, x) == CHOOSE i \in 1..Len(s) : s[i] = x

-----------------------------------------------------------------------------
(* The script run: the top-level code of app.py, run again on every        *)
(* interaction with the page                                               *)

\* slider "Liquidity Threshold (%)": 1.0 and 2.0 out of 0.1, 0.2, .. 10.0
Thresholds == {FromInt(1), FromInt(2)}
DefaultThreshold == FromInt(1)
\* slider "Select Price Levels": two positions out of 1..20, the upper one the default
PriceLevels == {1, 2}
DefaultPriceLevels == CHOOSE lv \in PriceLevels : \A x \in PriceLevels : x <= lv

FetchIdle ==
    /\ f_pc' = "idle"
    /\ f_retries' = DefaultRetries
    /\ f_attempt' = 0
    /\ f_klines' = NoKlines
    /\ f_sleeps' = 0
    /\ f_unclosed' = 0
    /\ f_result' = Zero

\* lines 34-56 and 175-176: a run begins; the sliders hold their defaults in the
\* first run of the session and whatever the user has set in a later one
Rerun ==
    /\ r_pc \in {"idle", "rendered"}
    /\ \E lv \in PriceLevels, th \in Thresholds :
         /\ "price_levels" \notin DOMAIN session_state
               => lv = DefaultPriceLevels /\ th = DefaultThreshold
         /\ session_state' =
               Put(Put(WithDefaults(session_state), "price_levels", lv), "threshold", th)
    /\ r_pc' = "avg_check"
    /\ shown' = <<>>
    /\ UNCHANGED <<fetch_vars, listen_vars, threads_started, call_vars>>

\* a condition that forgets the cached value
NeedsFetchAlways(ss) ==
    /\ ss.price_levels > 0
    /\ RatLess(Zero, ss.threshold)

\* line 179
NeedsFetch(ss) ==
    /\ ss.avg_daily_volume = Zero
    /\ ss.price_levels > 0
    /\ RatLess(Zero, ss.threshold)

\* lines 179-182: fetch the average daily volume unless the session has one
AvgCheck ==
    /\ r_pc = "avg_check"
    /\ IF NeedsFetch(session_state)
       THEN /\ FetchCalled(DefaultRetries)
            /\ r_pc' = "fetch"
       ELSE /\ r_pc' = "thread_check"
            /\ UNCHANGED fetch_vars
    /\ UNCHANGED <<session_state, shown, listen_vars, threads_started, call_vars>>

\* line 183: st.session_state.avg_daily_volume = avg_volume
FetchReturn ==
    /\ r_pc = "fetch"
    /\ f_pc = "returned"
    /\ session_state' = Put(session_state, "avg_daily_volume", f_result)
    /\ FetchIdle
    /\ r_pc' = "thread_check"
    /\ UNCHANGED <<shown, listen_vars, threads_started, call_vars>>

\* a condition that forgets the average daily volume
MayStartThreadWithoutVolume(ss) == "thread" \notin DOMAIN ss

\* line 190
MayStartThread(ss) ==
    /\ "thread" \notin DOMAIN ss
    /\ RatLess(Zero, ss.avg_daily_volume)

\* lines 190-195: start the listener thread once
ThreadCheck ==
    /\ r_pc = "thread_check"
    /\ IF MayStartThread(session_state)
       THEN /\ threads_started' = threads_started + 1
            /\ l_pc' = "args"
            /\ session_state' = Put(session_state, "thread", threads_started + 1)
       ELSE UNCHANGED <<threads_started, l_pc, session_state>>
    /\ r_pc' = ReadAt[1]
    /\ UNCHANGED <<shown, fetch_vars, l_levels, l_threshold, l_client, l_vals, call_vars>>

\* lines 198-231: the page reads one field of the session state
Render ==
    /\ r_pc \in Range(ReadAt)
    /\ LET i == IndexOf(ReadAt, r_pc)
           f == ReadField[i]
       IN  /\ shown' = shown @@ (f :> session_state[f])
           /\ r_pc' = IF i < Len(ReadAt) THEN ReadAt[i + 1] ELSE "rendered"
    /\ UNCHANGED <<session_state, fetch_vars, listen_vars, threads_started, call_vars>>

-----------------------------------------------------------------------------
(* The listener thread: run_asyncio and listen_order_book                  *)

\* messages of the depth socket
DepthUpdates ==
    { [bids |-> << <<99, 3>>, <<98, 1>> >>, asks |-> << <<101, 1>> >>],
      [bids |-> << <<99, 1>> >>, asks |-> << <<101, 1>>, <<102, 3>> >>] }

NoVals == <<>>

\* res.get(key, [])
Get(res, key) == IF key \in DOMAIN res THEN res[key] ELSE <<>>

\* a listener that reads the threshold slider at every use
LiveThreshold == session_state.threshold

\* the parameters levels and threshold of listen_order_book
ListenerLevels == l_levels
ListenerThreshold == l_threshold

\* line 163: the arguments of listen_order_book are read in the new thread
run_asyncio ==
    /\ l_pc = "args"
    /\ l_levels' = session_state.price_levels
    /\ l_threshold' = session_state.threshold
    /\ l_pc' = "create"
    /\ UNCHANGED <<l_client, l_vals>>
    /\ UNCHANGED <<session_state, r_pc, shown, fetch_vars, threads_started, call_vars>>

\* line 127: client = await AsyncClient.create()
ListenCreate ==
    /\ l_pc = "create"
    /\ \/ /\ l_client' = "open"
          /\ l_pc' = "socket"
       \/ /\ l_pc' = "except"
          /\ UNCHANGED l_client
    /\ UNCHANGED <<l_levels, l_threshold, l_vals>>
    /\ UNCHANGED <<session_state, r_pc, shown, fetch_vars, threads_started, call_vars>>

\* lines 128-131: the socket manager and "async with socket as s"
ListenConnect ==
    /\ l_pc = "socket"
    /\ l_pc' \in {"recv", "except"}
    /\ UNCHANGED <<l_levels, l_threshold, l_client, l_vals>>
    /\ UNCHANGED <<session_state, r_pc, shown, fetch_vars, threads_started, call_vars>>

\* lines 133-141: one message, its liquidity and its signal
ListenRecv ==
    /\ l_pc = "recv"
    /\ \/ \E res \in DepthUpdates :
            LET bids == Get(res, "bids")
                asks == Get(res, "asks")
                liq == calculate_liquidity(bids, asks, ListenerLevels,
                                           session_state.avg_daily_volume)
                signal == generate_signal(liq.liquidity_bid_pct, liq.liquidity_ask_pct,
                                          ListenerThreshold)
            IN  /\ l_vals' = [bids |-> bids, asks |-> asks, signal |-> signal,
                              liquidity_bid |-> liq.liquidity_bid,
                              liquidity_ask |-> liq.liquidity_ask,
                              liquidity_bid_pct |-> liq.liquidity_bid_pct,
                              liquidity_ask_pct |-> liq.liquidity_ask_pct]
                /\ l_pc' = StoreAt[1]
       \/ /\ l_pc' = "except"            \* recv raised
          /\ UNCHANGED l_vals
    /\ UNCHANGED <<l_levels, l_threshold, l_client>>
    /\ UNCHANGED <<session_state, r_pc, shown, fetch_vars, threads_started, call_vars>>

\* right-hand sides that forget the [:levels] of lines 144-145
StoreValueWhole(f) == l_vals[f]

\* the right-hand side of the assignment to field f in lines 144-150
StoreValue(f) ==
    IF f \in {"bids", "asks"} THEN PySlice(l_vals[f], ListenerLevels) ELSE l_vals[f]

\* lines 144-154: one assignment to the session state; after the last one the
\* iteration's locals are dead and the loop sleeps, then receives again
ListenStore ==
    /\ l_pc \in Range(StoreAt)
    /\ LET i == IndexOf(StoreAt, l_pc)
           f == StoreField[i]
       IN  /\ session_state' = Put(session_state, f, StoreValue(f))
           /\ l_pc' = IF i < Len(StoreAt) THEN StoreAt[i + 1] ELSE "recv"
           /\ l_vals' = IF i < Len(StoreAt) THEN l_vals ELSE NoVals
    /\ UNCHANGED <<l_levels, l_threshold, l_client>>
    /\ UNCHANGED <<r_pc, shown, fetch_vars, threads_started, call_vars>>

\* an except block that opens the socket again
ListenExceptReconnect ==
    /\ l_pc = "except"
    /\ l_pc' = IF l_client = "open" THEN "socket" ELSE "finally"
    /\ l_vals' = NoVals
    /\ UNCHANGED <<l_levels, l_threshold, l_client>>
    /\ UNCHANGED <<session_state, r_pc, shown, fetch_vars, threads_started, call_vars>>

\* lines 155-157: log the error and report it
ListenExcept ==
    /\ l_pc = "except"
    /\ l_pc' = "finally"
    /\ l_vals' = NoVals
    /\ UNCHANGED <<l_levels, l_threshold, l_client>>
    /\ UNCHANGED <<session_state, r_pc, shown, fetch_vars, threads_started, call_vars>>

\* line 159: await client.close_connection(); the name client is unbound when
\* AsyncClient.create() raised, and close_connection itself may raise
ListenFinally ==
    /\ l_pc = "finally"
    /\ IF l_client = "unbound"
       THEN /\ l_pc' = "escaped"         \* UnboundLocalError leaves the function
            /\ UNCHANGED l_client
       ELSE /\ l_client' = "closed"
            /\ l_pc' \in {"done", "escaped"}
    /\ UNCHANGED <<l_levels, l_threshold, l_vals>>
    /\ UNCHANGED <<session_state, r_pc, shown, fetch_vars, threads_started, call_vars>>

listen_order_book ==
    ListenCreate \/ ListenConnect \/ ListenRecv \/ ListenStore \/ ListenExcept \/ ListenFinally

-----------------------------------------------------------------------------
(* Specifications *)

Init ==
    /\ session_state = <<>>
    /\ r_pc = "idle"
    /\ shown = <<>>
    /\ f_pc = "idle"
    /\ f_retries = DefaultRetries
    /\ f_attempt = 0
    /\ f_klines = NoKlines
    /\ f_sleeps = 0
    /\ f_unclosed = 0
    /\ f_result = Zero
    /\ l_pc = "idle"
    /\ l_levels = 0
    /\ l_threshold = Zero
    /\ l_client = "unbound"
    /\ l_vals = NoVals
    /\ threads_started = 0
    /\ call = NoCall
    /\ ret = NoRet

Next ==
    \/ Rerun
    \/ AvgCheck
    \/ fetch_avg_daily_volume
    \/ FetchReturn
    \/ ThreadCheck
    \/ Render
    \/ run_asyncio
    \/ listen_order_book

Spec == Init /\ [][Next]_vars

\* fetch_avg_daily_volume called on its own, with any retries in 1..MaxRetries
InitFetch ==
    /\ session_state = <<>>
    /\ r_pc = "idle"
    /\ shown = <<>>
    /\ f_pc = "create"
    /\ f_retries \in 1..MaxRetries
    /\ f_attempt = 1
    /\ f_klines = NoKlines
    /\ f_sleeps = 0
    /\ f_unclosed = 0
    /\ f_result = Zero
    /\ l_pc = "idle"
    /\ l_levels = 0
    /\ l_threshold = Zero
    /\ l_client = "unbound"
    /\ l_vals = NoVals
    /\ threads_started = 0
    /\ call = NoCall
    /\ ret = NoRet

NextFetch == fetch_avg_daily_volume

SpecFetch == InitFetch /\ [][NextFetch]_vars

\* calculate_liquidity and generate_signal called on their own
NextCall == CallCalculateLiquidity \/ CallGenerateSignal

InitCall ==
    /\ session_state = <<>>
    /\ r_pc = "idle"
    /\ shown = <<>>
    /\ f_pc = "idle"
    /\ f_retries = DefaultRetries
    /\ f_attempt = 0
    /\ f_klines = NoKlines
    /\ f_sleeps = 0
    /\ f_unclosed = 0
    /\ f_result = Zero
    /\ l_pc = "idle"
    /\ l_levels = 0
    /\ l_threshold = Zero
    /\ l_client = "unbound"
    /\ l_vals = NoVals
    /\ threads_started = 0
    /\ call \in LiquidityCalls \cup SignalCalls
    /\ ret = NoRet

SpecCall == InitCall /\ [][NextCall]_vars

-----------------------------------------------------------------------------
(* Properties *)

\* x > y on rationals, by cross-multiplication
Gt(x, y) == x[1] * y[2] > y[1] * x[2]

Min(a, b) == IF a < b THEN a ELSE b

\* the sum of the quantities of the first n levels of a side
RECURSIVE SumFirst(_, _)
SumFirst(side, n) == IF n = 0 THEN 0 ELSE SumFirst(side, n - 1) + side[n][2]

SumQty(side) == SumFirst(side, Len(side))

\* the sum of the first n numbers of a sequence
RECURSIVE Total(_, _)
Total(s, n) == IF n = 0 THEN 0 ELSE Total(s, n - 1) + s[n]

\* r is the mean of the volumes
IsMean(r, volumes) == r[1] * Len(volumes) = Total(volumes, Len(volumes)) * r[2]

\* pct is liquidity / adv * 100 when adv > 0, and 0 otherwise
PctIs(pct, liquidity, adv) ==
    IF adv[1] > 0
    THEN pct[1] * adv[1] = 100 * liquidity * adv[2] * pct[2]
    ELSE pct = Zero

\* sig is the signal of the two percentages b and a under threshold t
SignalIs(sig, b, a, t) ==
    /\ sig \in {"Buy", "Sell", "Neutral"}
    /\ (sig = "Buy") <=> (Gt(b, t) /\ ~Gt(a, t))
    /\ (sig = "Sell") <=> (Gt(a, t) /\ ~Gt(b, t))
    /\ (sig = "Neutral") <=> (Gt(b, t) <=> Gt(a, t))

WellFormed(side) == \A i \in 1..Len(side) : Len(side[i]) = 2

HasKeys == "bids" \in DOMAIN session_state

\* the seven fields the listener stores
Fields(ss) == [f \in Range(StoreField) |-> ss[f]]

\* the seven fields belong to one order-book update handled with levels lv and threshold t
Consistent(ss, lv, t) ==
    /\ Len(ss.bids) <= lv
    /\ Len(ss.asks) <= lv
    /\ ss.liquidity_bid = SumQty(ss.bids)
    /\ ss.liquidity_ask = SumQty(ss.asks)
    /\ PctIs(ss.liquidity_bid_pct, ss.liquidity_bid, ss.avg_daily_volume)
    /\ PctIs(ss.liquidity_ask_pct, ss.liquidity_ask, ss.avg_daily_volume)
    /\ SignalIs(ss.signal, ss.liquidity_bid_pct, ss.liquidity_ask_pct, t)

\* the listener has stored some but not all fields of an update
MidStore == l_pc \in {StoreAt[i] : i \in 2..Len(StoreAt)}

\* listen_order_book has left its try block
Ended == {"except", "finally", "done", "escaped"}

\* C1: generate_signal returns one of Buy, Sell, Neutral: Buy exactly when the bid
\* percentage is above the threshold and the ask percentage is not, Sell exactly when
\* the ask percentage is above and the bid percentage is not, Neutral otherwise;
\* a percentage equal to the threshold is not above it.
C1_SignalClassification ==
    (call.fn = "generate_signal" /\ ret.returned)
        => SignalIs(ret.value, call.liquidity_bid_pct, call.liquidity_ask_pct, call.threshold)

\* a bid percentage equal to the threshold with the ask above it gives Sell
C1_Witness ==
    /\ call.fn = "generate_signal"
    /\ ret.returned
    /\ call.liquidity_bid_pct = call.threshold
    /\ Gt(call.liquidity_ask_pct, call.threshold)
    /\ ret.value = "Sell"

\* C2: for well-formed sides and levels >= 1, calculate_liquidity returns on each side
\* the sum of the quantities of the first min(levels, len) levels, and each percentage
\* is liquidity / avg_daily_volume * 100 when avg_daily_volume > 0 and 0 otherwise.
C2_LiquiditySums ==
    (/\ call.fn = "calculate_liquidity"
     /\ ret.returned
     /\ WellFormed(call.bids)
     /\ WellFormed(call.asks)
     /\ call.levels >= 1)
        => /\ ret.value.liquidity_bid
                 = SumFirst(call.bids, Min(call.levels, Len(call.bids)))
           /\ ret.value.liquidity_ask
                 = SumFirst(call.asks, Min(call.levels, Len(call.asks)))
           /\ PctIs(ret.value.liquidity_bid_pct, ret.value.liquidity_bid,
                    call.avg_daily_volume)
           /\ PctIs(ret.value.liquidity_ask_pct, ret.value.liquidity_ask,
                    call.avg_daily_volume)

\* more bids than levels, no asks, a positive volume: the levels beyond are left out
C2_Witness ==
    /\ call.fn = "calculate_liquidity"
    /\ ret.returned
    /\ WellFormed(call.bids)
    /\ call.asks = <<>>
    /\ call.levels >= 1
    /\ call.levels < Len(call.bids)
    /\ Gt(call.avg_daily_volume, Zero)
    /\ ret.value.liquidity_bid < SumQty(call.bids)
    /\ ret.value.liquidity_ask = 0
    /\ Gt(ret.value.liquidity_bid_pct, Zero)

\* C3: fetch_avg_daily_volume makes at most `retries` attempts; it has slept once after
\* every failed attempt but the last; it returns the mean of the klines of the attempt
\* that succeeded, or 0.0 after attempt number `retries` failed; once it has returned
\* it does nothing more.
C3_BoundedRetry ==
    /\ f_attempt \in 1..f_retries
    /\ f_sleeps = (IF f_pc = "sleep" THEN f_attempt ELSE f_attempt - 1)
    /\ f_pc = "returned"
          => /\ \/ f_klines # <<>> /\ IsMean(f_result, f_klines)
                \/ f_result = Zero /\ f_attempt = f_retries
             /\ f_klines = <<>> => f_result = Zero
             /\ ~ENABLED NextFetch

\* the first attempt failed, the second one returned the mean of two candles
C3_Witness ==
    /\ f_pc = "returned"
    /\ f_retries = 3
    /\ f_attempt = 2
    /\ f_sleeps = 1
    /\ f_klines = <<0, 100>>
    /\ f_result = <<50, 1>>

\* C4: the listener stores the seven fields one at a time and a render reads them in
\* between, so a render can show fields of two updates (the witness); the session
\* state can hold fields of two updates only while the listener is between the first
\* and the last store of an update: whenever it is not, the seven fields belong to
\* one update.
C4_TornOnlyMidUpdate ==
    (HasKeys /\ ~MidStore) => Consistent(session_state, l_levels, l_threshold)

\* a finished render that shows the bids and asks of one update next to the
\* liquidity values of an earlier one
C4_TornRender ==
    /\ r_pc = "rendered"
    /\ shown.liquidity_bid > 0
    /\ shown.liquidity_bid # SumQty(shown.bids)
    /\ shown.liquidity_ask # SumQty(shown.asks)
    /\ PctIs(shown.liquidity_bid_pct, shown.liquidity_bid, session_state.avg_daily_volume)
    /\ PctIs(shown.liquidity_ask_pct, shown.liquidity_ask, session_state.avg_daily_volume)

\* a step taken after listen_order_book has left its try block
C5_Step ==
    l_pc \in Ended =>
        /\ l_pc' \in Ended
        /\ "thread" \in DOMAIN session_state'
        /\ threads_started' = threads_started
        /\ Fields(session_state') = Fields(session_state)

\* C5: once listen_order_book has left its loop because of an error it never goes
\* back, the key 'thread' stays in the session state, no thread is started again and
\* the seven fields keep their values.
C5_NoReconnect == [][C5_Step]_vars

\* a later run, with the sliders moved, has rendered the last values after the
\* listener ended
C5_Witness ==
    /\ l_pc = "done"
    /\ r_pc = "rendered"
    /\ session_state.bids # <<>>
    /\ shown = Fields(session_state)
    /\ session_state.price_levels # l_levels
    /\ session_state.threshold # l_threshold

\* C6: a run calls the fetch only when the stored average daily volume is 0, and a
\* run that finds it 0 does call it; the value the fetch returns is stored, 0.0 when
\* it failed; a positive stored value is never changed by any step.
C6_CachedVolume ==
    /\ [][(f_pc = "idle" /\ f_pc' # "idle")
             => session_state.avg_daily_volume = Zero]_vars
    /\ [][(r_pc = "avg_check" /\ session_state.avg_daily_volume = Zero)
             => (r_pc' = "fetch" /\ f_pc' = "create" /\ f_attempt' = 1)]_vars
    /\ [][(r_pc = "fetch" /\ r_pc' # "fetch")
             => session_state'.avg_daily_volume = f_result]_vars
    /\ [][(HasKeys /\ Gt(session_state.avg_daily_volume, Zero))
             => session_state'.avg_daily_volume = session_state.avg_daily_volume]_vars

\* a run after the first one (the sliders are off their defaults) fetches again
C6_Witness ==
    /\ r_pc = "fetch"
    /\ f_pc = "create"
    /\ f_attempt = 1
    /\ session_state.avg_daily_volume = Zero
    /\ session_state.price_levels # DefaultPriceLevels
    /\ session_state.threshold # DefaultThreshold

\* C7: at most one listener thread is started, and only by a step that finds a
\* positive average daily volume; while the average daily volume is 0 no thread has
\* been started, the signal is Neutral, the liquidity fields are 0 and bids and asks
\* are empty.
C7_SingleListener ==
    /\ [](threads_started <= 1)
    /\ []((HasKeys /\ session_state.avg_daily_volume = Zero)
             => /\ threads_started = 0
                /\ session_state.signal = "Neutral"
                /\ session_state.liquidity_bid = 0
                /\ session_state.liquidity_ask = 0
                /\ session_state.liquidity_bid_pct = Zero
                /\ session_state.liquidity_ask_pct = Zero
                /\ session_state.bids = <<>>
                /\ session_state.asks = <<>>)
    /\ [][threads_started' # threads_started
             => (HasKeys /\ Gt(session_state.avg_daily_volume, Zero))]_vars

\* a run after the one that started the listener has passed line 190 without
\* starting a second one
C7_Witness ==
    /\ threads_started = 1
    /\ r_pc = ReadAt[1]
    /\ l_pc = "recv"
    /\ session_state.bids # <<>>
    /\ session_state.price_levels # l_levels

\* C8: no exception leaves listen_order_book.
C8_NoEscape == l_pc # "escaped"

\* C9: the listener's levels and threshold are the slider values it read when its
\* thread began to run; they never change afterwards and no second thread is started,
\* whatever the sliders are set to later; every update it has stored completely is
\* truncated to those levels and classified with that threshold.
C9_FrozenParameters ==
    /\ [][(l_pc = "args" /\ l_pc' # "args")
             => (/\ l_levels' = session_state.price_levels
                 /\ l_threshold' = session_state.threshold)]_vars
    /\ [][l_pc \notin {"idle", "args"}
             => (/\ l_levels' = l_levels
                 /\ l_threshold' = l_threshold
                 /\ threads_started' = threads_started)]_vars
    /\ []((l_pc \in {"recv", StoreAt[1]} /\ HasKeys)
             => /\ Len(session_state.bids) <= l_levels
                /\ Len(session_state.asks) <= l_levels
                /\ SignalIs(session_state.signal, session_state.liquidity_bid_pct,
                            session_state.liquidity_ask_pct, l_threshold))

\* both sliders have been moved since the listener started, and the stored signal
\* is not the one the new threshold would give
C9_Witness ==
    /\ l_pc = "recv"
    /\ session_state.bids # <<>>
    /\ session_state.price_levels # l_levels
    /\ session_state.threshold # l_threshold
    /\ ~SignalIs(session_state.signal, session_state.liquidity_bid_pct,
                 session_state.liquidity_ask_pct, session_state.threshold)

\* C10: when fetch_avg_daily_volume or listen_order_book has returned, close_connection
\* has been called on every client it created.
C10_ClientsClosed ==
    /\ f_pc = "returned" => f_unclosed = 0
    /\ l_pc \in {"done", "escaped"} => l_client # "open"

====
